---------------------------- MODULE Spec2Model ----------------------------
(***************************************************************************)
(* Model of the interrupt-safe board layer of wasefire:                    *)
(*   - crates/board/src/usb/serial.rs   (Serial, WithSerial: the driver)   *)
(*   - crates/runner-nordic/src/main.rs (start-up, interrupt handlers)     *)
(*   - crates/runner-nordic/src/tasks/rng.rs (fill_bytes)                  *)
(*   - crates/runner-host/src/board/rng.rs   (fill_bytes)                  *)
(*   - crates/xtask/src/main.rs (copy_if_changed, execute_rust)            *)
(*                                                                         *)
(* The specifications share the variables:                                 *)
(*   SpecSerial  the serial driver alone, driven call by call, with the    *)
(*               transport (usbd_serial::SerialPort) as the environment;   *)
(*   SpecApi     the serial capability with any of its implementations     *)
(*               (WithSerial, Unsupported, Unimplemented);                 *)
(*   SpecBoot    main's start-up with the interrupts taken on the way;     *)
(*   Spec        the nordic runner after start-up: the interrupt           *)
(*               handlers, the main-line capability calls and the          *)
(*               consumer of the event queue;                              *)
(*   FairSpec    the handlers and a main-line, with handlers that run to   *)
(*               their end;                                                *)
(*   SpecButtons the GPIOTE and TIMER handlers with several buttons;       *)
(*   SpecTimers  the five TIMER handlers and the consumer;                 *)
(*   SpecRng     fill_bytes of the nordic and of the host runner;          *)
(*   SpecXtask   the applet builds of xtask (copy_if_changed).             *)
(***************************************************************************)
EXTENDS Integers, Sequences, FiniteSets, TLC

VARIABLES
    read_enabled,   \* Serial.read_enabled
    write_enabled,  \* Serial.write_enabled
    dtr,            \* Serial.port.dtr(): the DTR line as the port sees it
    pc,             \* position of main-line execution
    ret,            \* the last completed capability call and its result
    calls,          \* transport calls made by the call recorded in ret
    lastTick,       \* the last Serial::tick: its inputs and what it pushed
    hist,           \* per event kind, the enable(TRUE)/disable(FALSE) calls
    BOARD,          \* static BOARD: "None" or "Some"
    unmasked,       \* how many entries of INTERRUPTS are unmasked (a prefix)
    cs,             \* TRUE inside critical_section::with (interrupts off)
    borrowed,       \* holders of a RefMut of the State's RefCell
    irq,            \* the running interrupt handler and its position
    latch,          \* GPIOTE channels whose event is latched
    events,         \* State.events: the event queue
    pushed,         \* history: every event handed to events.push, in order
    popped,         \* history: every event the consumer popped, in order
    pushedOcc,      \* history: for each pushed event, the number of the
                    \* interrupt occurrence that pushed it
    ticked,         \* history: the arguments of the calls of timers.tick
    panicked,       \* "none", or the reason of the panic that stopped it
    variant,        \* the implementation of the serial capability linked in
    fs              \* xtask: the applet build's files and its last steps

vars == << read_enabled, write_enabled, dtr, pc, ret, calls, lastTick, hist,
           BOARD, unmasked, cs, borrowed, irq, latch, events, pushed,
           popped, pushedOcc, ticked, panicked, variant, fs >>

serialVars == << read_enabled, write_enabled, dtr >>
\* The capability variant is chosen at build time: no action changes it.
\* The build's files are touched by xtask alone, never by the firmware.
recordVars == << ret, calls, lastTick, hist, variant, fs >>
boardVars  == << BOARD, unmasked, cs, borrowed, irq, latch, events, pushed,
                 popped, pushedOcc, ticked, panicked, variant, fs >>

(***************************************************************************)
(* Bounds of the model.                                                    *)
(***************************************************************************)
\* Longest buffer handed to read and write.
MaxLen == 2
\* Longest recorded sequence of enable/disable calls per event kind.
MaxCalls == 2
\* No interrupt is taken once this many events have been pushed.
MaxPushed == 2
\* Timers TIMER0 .. TIMER(MaxTimerIrq-1) raise interrupts in the model.
MaxTimerIrq == 1
\* Buttons 0 .. MaxButtonEdge-1 see edges in the model.
MaxButtonEdge == 1
\* SpecButtons: no interrupt is taken once this many events are pushed.
MaxPushedButtons == 3
\* SpecButtons: buttons 0 .. MaxEdgeButtons-1 see edges.
MaxEdgeButtons == 2
\* SpecTimers: no interrupt is taken once this many events are pushed.
MaxPushedTimers == 2
\* SpecXtask: the applet source has versions 1 .. MaxVersions.
MaxVersions == 2

(***************************************************************************)
(* Program constants.                                                      *)
(***************************************************************************)
\* buttons: [Button; 4]
NumButtons == 4
\* TIMER0 .. TIMER4
NumTimers == 5

Min(a, b) == IF a < b THEN a ELSE b

\* A position of main-line execution: where it is, and inside a capability
\* call which one and with which event argument.
At(a) == [at |-> a, op |-> "none", arg |-> "none"]
Held(op, arg) == [at |-> "held", op |-> op, arg |-> arg]
NoIrq == [h |-> "none", n |-> 0, at |-> "none", seen |-> {}]

(***************************************************************************)
(* xtask (crates/xtask/src/main.rs): the files of the applet build.  A     *)
(* file's content is a record; `of` is the version of the applet source    *)
(* it was built from.                                                      *)
(***************************************************************************)
Absent == [kind |-> "absent", of |-> 0]
Garbage == [kind |-> "garbage", of |-> 0]
\* The wasm cargo builds from version v of the applet.
Wasm(v) == [kind |-> "wasm", of |-> v]
\* That wasm after wasm-strip and wasm-opt.
Optimized(c) == [kind |-> "optimized", of |-> c.of]
\* The output of the AssemblyScript compiler, post-processed.
AscOutput == [kind |-> "asc", of |-> 0]
\* Sha256::digest: different contents have different digests.
Sha256(c) == [kind |-> "sha256:" \o c.kind, of |-> c.of]
Versions == 1 .. MaxVersions
Contents == { Wasm(v) : v \in Versions }
NoBefore == [dst |-> Absent, hash |-> Absent]
NoFs == [src |-> Absent, dst |-> Absent, hash |-> Absent, at |-> "idle",
         ret |-> "none", before |-> NoBefore, seq |-> 0, ran |-> FALSE]

\* Faulty variant: only a missing dst.hash counts as a change.
copy_if_changed_missing_only(src, dst, dst_file) ==
    LET src_hash == Sha256(src)
        changed == dst_file = Absent
    IN  IF changed
        THEN [dst |-> src, hash |-> src_hash, ret |-> TRUE]
        ELSE [dst |-> dst, hash |-> dst_file, ret |-> FALSE]

\* copy_if_changed(src, dst): the contents of dst and of dst.hash after the
\* call, and the value returned.  dst_file is the content of dst.hash.
copy_if_changed(src, dst, dst_file) ==
    LET src_hash == Sha256(src)
        changed == dst_file = Absent \/ dst_file # src_hash
    IN  IF changed
        THEN [dst |-> src, hash |-> src_hash, ret |-> TRUE]
        ELSE [dst |-> dst, hash |-> dst_file, ret |-> FALSE]

(***************************************************************************)
(* Events (serial.rs Event, board Event).                                  *)
(***************************************************************************)
Read  == "Read"
Write == "Write"
Event == {Read, Write}

ButtonEvent(i, pressed) ==
    [kind |-> "Button", index |-> i,
     detail |-> IF pressed THEN "pressed" ELSE "released"]
TimerEvent(n) == [kind |-> "Timer", index |-> n, detail |-> "none"]
\* impl From<Event> for crate::Event
SerialEvent(e) == [kind |-> "Serial", index |-> 0, detail |-> e]

(***************************************************************************)
(* Results: Result<usize, Error> and Result<(), Error>.                    *)
(***************************************************************************)
Ok(n)  == [tag |-> "Ok", len |-> n, err |-> "none"]
Err(e) == [tag |-> "Err", len |-> 0, err |-> e]
OkUnit == Ok(0)

\* usb_device::UsbError: WouldBlock and the faults that are not WouldBlock.
WouldBlock == "WouldBlock"
UsbFault == {"BufferOverflow", "InvalidState"}

\* What SerialPort::read / write can answer for a buffer of n bytes.
PortAnswers(n) ==
    { [tag |-> "Ok", len |-> k, err |-> "none"] : k \in 0 .. n }
    \cup { Err(e) : e \in UsbFault \cup {WouldBlock} }
\* What SerialPort::flush can answer.
FlushAnswers == { OkUnit } \cup { Err(e) : e \in UsbFault \cup {WouldBlock} }

(***************************************************************************)
(* Serial (serial.rs 118-149).                                             *)
(***************************************************************************)
\* Serial::new: both flags false.
Serial_new == read_enabled = FALSE /\ write_enabled = FALSE

\* Faulty variant: Write is pushed without looking at DTR.
tick_no_dtr(re, we, d, polled) ==
    (IF re /\ polled THEN << Read >> ELSE << >>)
    \o (IF we THEN << Write >> ELSE << >>)

\* Faulty variant: Read is pushed without looking at polled.
tick_no_polled(re, we, d, polled) ==
    (IF re THEN << Read >> ELSE << >>)
    \o (IF we /\ d THEN << Write >> ELSE << >>)

\* Faulty variant: Write is pushed only when polled.
tick_write_polled(re, we, d, polled) ==
    (IF re /\ polled THEN << Read >> ELSE << >>)
    \o (IF we /\ d /\ polled THEN << Write >> ELSE << >>)

\* Faulty variant: the two ifs are swapped.
tick_write_first(re, we, d, polled) ==
    (IF we /\ d THEN << Write >> ELSE << >>)
    \o (IF re /\ polled THEN << Read >> ELSE << >>)

\* Serial::tick: the events handed to push, in the order of the calls.
tick(re, we, d, polled) ==
    (IF re /\ polled THEN << Read >> ELSE << >>)
    \o (IF we /\ d THEN << Write >> ELSE << >>)

\* Faulty variant: the call sets the flags of both event kinds.
set_both(event, enabled) ==
    /\ read_enabled' = enabled
    /\ write_enabled' = enabled

\* Faulty variant: disable does not clear the flag.
set_never_clears(event, enabled) ==
    /\ read_enabled' = IF event = Read THEN (read_enabled \/ enabled)
                       ELSE read_enabled
    /\ write_enabled' = IF event = Write THEN (write_enabled \/ enabled)
                        ELSE write_enabled

\* Faulty variant: the flag is flipped instead of assigned.
set_toggle(event, enabled) ==
    /\ read_enabled' = IF event = Read THEN ~read_enabled ELSE read_enabled
    /\ write_enabled' = IF event = Write THEN ~write_enabled ELSE write_enabled

\* Serial::set
set(event, enabled) ==
    /\ read_enabled' = IF event = Read THEN enabled ELSE read_enabled
    /\ write_enabled' = IF event = Write THEN enabled ELSE write_enabled

(***************************************************************************)
(* impl Api for WithSerial (serial.rs 151-206): the mapping of a transport *)
(* answer to the result of the call.                                       *)
(***************************************************************************)
\* Faulty variant: the WouldBlock arm is missing.
read_result_wouldblock_is_error(ans) ==
    IF ans.tag = "Ok" THEN Ok(ans.len) ELSE Err("World")

\* The match of read: Ok(len) => Ok(len), Err(WouldBlock) => Ok(0),
\* Err(e) => Err(Error::World).
read_result(ans) ==
    IF ans.tag = "Ok" THEN Ok(ans.len)
    ELSE IF ans.err = WouldBlock THEN Ok(0)
    ELSE Err("World")

\* Faulty variant: the catch-all arm returns Error::User.
write_result_fault_is_user(ans) ==
    IF ans.tag = "Ok" THEN Ok(ans.len)
    ELSE IF ans.err = WouldBlock THEN Ok(0)
    ELSE Err("User")

\* The match of write: the same three arms as read.
write_result(ans) ==
    IF ans.tag = "Ok" THEN Ok(ans.len)
    ELSE IF ans.err = WouldBlock THEN Ok(0)
    ELSE Err("World")

\* Faulty variant: a WouldBlock answer of flush is reported as success.
flush_result_wouldblock_is_ok(ans) ==
    IF ans.tag = "Ok" THEN OkUnit
    ELSE IF ans.err = WouldBlock THEN OkUnit
    ELSE Err("World")

\* The match of flush: Ok(()) => Ok(()), Err(e) => Err(Error::World).
flush_result(ans) ==
    IF ans.tag = "Ok" THEN OkUnit ELSE Err("World")

\* Faulty variant: the DTR check is missing.
write_ready_ignores_dtr(d) == TRUE

\* write's guard: the transport's write is attempted iff port.dtr().
write_ready(d) == d

\* The record of a capability call: the operation, its event argument,
\* the length of its buffer, the DTR value write's check saw, the answer
\* of the transport (NoAns when the transport's read, write or flush was
\* not called), the result, and whether the call has returned.
NoAns == [tag |-> "none", len |-> 0, err |-> "none"]
Call(op, arg, buf, d, ans, res, done) ==
    [op |-> op, arg |-> arg, buf |-> buf, dtrSeen |-> d, ans |-> ans,
     res |-> res, done |-> done]
NoCall == Call("none", "none", 0, FALSE, NoAns, OkUnit, FALSE)
NoTick == [called |-> FALSE, polled |-> FALSE, re |-> FALSE, we |-> FALSE,
           dtr |-> FALSE, out |-> << >>]

(***************************************************************************)
(* SpecSerial: the driver alone.  Every call goes through with_serial,     *)
(* which hands the closure the Serial; write makes two such calls, and     *)
(* between them the USB poll may run (tick) and the host may change DTR.   *)
(***************************************************************************)
InitBoardIdle ==
    /\ BOARD = "None" /\ unmasked = 0 /\ cs = FALSE /\ borrowed = {}
    /\ irq = NoIrq
    /\ latch = {} /\ events = << >> /\ pushed = << >> /\ popped = << >>
    /\ pushedOcc = << >>
    /\ ticked = << >>
    /\ panicked = "none"

InitSerial ==
    /\ Serial_new
    /\ dtr \in BOOLEAN
    /\ pc = At("idle")
    /\ ret = NoCall /\ calls = << >> /\ lastTick = NoTick
    /\ hist = [e \in Event |-> << >>]
    /\ variant = "WithSerial"
    /\ fs = NoFs
    /\ InitBoardIdle

\* Faulty variant: enable and disable fail while DTR is not asserted.
S_set_err_without_dtr(event, enabled) ==
    /\ pc = At("idle")
    /\ Len(hist[event]) < MaxCalls
    /\ set(event, enabled)
    /\ hist' = [hist EXCEPT ![event] = Append(@, enabled)]
    /\ ret' = Call(IF enabled THEN "enable" ELSE "disable", event, 0, FALSE,
                   NoAns, IF dtr THEN OkUnit ELSE Err("World"), TRUE)
    /\ calls' = << >>
    /\ UNCHANGED << dtr, pc, lastTick >>

\* WithSerial::enable / WithSerial::disable
S_set(event, enabled) ==
    /\ pc = At("idle")
    /\ Len(hist[event]) < MaxCalls
    /\ set(event, enabled)
    /\ hist' = [hist EXCEPT ![event] = Append(@, enabled)]
    /\ ret' = Call(IF enabled THEN "enable" ELSE "disable", event, 0, FALSE,
                   NoAns, OkUnit, TRUE)
    /\ calls' = << >>
    /\ UNCHANGED << dtr, pc, lastTick >>

S_enable == \E event \in Event : S_set(event, TRUE)
S_disable == \E event \in Event : S_set(event, FALSE)

\* WithSerial::read
S_read ==
    /\ pc = At("idle")
    /\ \E n \in 0 .. MaxLen : \E ans \in PortAnswers(n) :
          /\ ret' = Call("read", "none", n, FALSE, ans, read_result(ans), TRUE)
          /\ calls' = << "read" >>
    /\ UNCHANGED << serialVars, pc, lastTick, hist >>

\* WithSerial::write, first with_serial: port.dtr(); return Ok(0) if not
\* ready.
S_write_check ==
    /\ pc = At("idle")
    /\ \E n \in 0 .. MaxLen :
          IF write_ready(dtr)
          THEN /\ ret' = Call("write", "none", n, dtr, NoAns, OkUnit, FALSE)
               /\ pc' = At("write_xmit")
          ELSE /\ ret' = Call("write", "none", n, dtr, NoAns, Ok(0), TRUE)
               /\ pc' = At("idle")
    /\ calls' = << "dtr" >>
    /\ UNCHANGED << serialVars, lastTick, hist >>

\* WithSerial::write, second with_serial: port.write(input) and the match.
S_write_xmit ==
    /\ pc = At("write_xmit")
    /\ \E ans \in PortAnswers(ret.buf) :
          ret' = [ret EXCEPT !.ans = ans, !.res = write_result(ans),
                             !.done = TRUE]
    /\ calls' = Append(calls, "write")
    /\ pc' = At("idle")
    /\ UNCHANGED << serialVars, lastTick, hist >>

\* WithSerial::flush
S_flush ==
    /\ pc = At("idle")
    /\ \E ans \in FlushAnswers :
          ret' = Call("flush", "none", 0, FALSE, ans, flush_result(ans), TRUE)
    /\ calls' = << "flush" >>
    /\ UNCHANGED << serialVars, pc, lastTick, hist >>

\* Serial::tick(polled, push), with push collecting the events.
S_tick ==
    /\ \E polled \in BOOLEAN :
          lastTick' = [called |-> TRUE, polled |-> polled,
                       re |-> read_enabled, we |-> write_enabled,
                       dtr |-> dtr,
                       out |-> tick(read_enabled, write_enabled, dtr, polled)]
    /\ UNCHANGED << serialVars, pc, ret, calls, hist >>

\* The host changes the DTR line (SET_CONTROL_LINE_STATE, bus reset).
S_host_dtr ==
    /\ dtr' = ~dtr
    /\ UNCHANGED << read_enabled, write_enabled, pc, recordVars >>

NextSerial ==
    \/ (S_enable /\ UNCHANGED boardVars)
    \/ (S_disable /\ UNCHANGED boardVars)
    \/ (S_read /\ UNCHANGED boardVars)
    \/ (S_write_check /\ UNCHANGED boardVars)
    \/ (S_write_xmit /\ UNCHANGED boardVars)
    \/ (S_flush /\ UNCHANGED boardVars)
    \/ (S_tick /\ UNCHANGED boardVars)
    \/ (S_host_dtr /\ UNCHANGED boardVars)

SpecSerial == InitSerial /\ [][NextSerial]_vars

(***************************************************************************)
(* SpecApi: the serial capability with any of its three implementations    *)
(* linked in: WithSerial (above), Unsupported, Unimplemented.              *)
(***************************************************************************)
ApiOps == {"read", "write", "flush", "enable", "disable"}
\* The calls of the Api trait: read and write with a buffer of n bytes,
\* enable and disable with an event.
ApiCalls ==
    { Call(op, "none", n, FALSE, NoAns, OkUnit, FALSE) :
        op \in {"read", "write"}, n \in 0 .. MaxLen }
    \cup { Call("flush", "none", 0, FALSE, NoAns, OkUnit, FALSE) }
    \cup { Call(op, event, 0, FALSE, NoAns, OkUnit, FALSE) :
        op \in {"enable", "disable"}, event \in Event }
\* A call that did not return.
NoResult == [tag |-> "none", len |-> 0, err |-> "none"]

\* Faulty variant: enable and disable succeed on a board without serial.
Unsupported_result_set_ok(op) ==
    IF op \in {"enable", "disable"} THEN OkUnit ELSE Err("User")

\* impl Api for Unsupported: every function returns Err(Error::User).
Unsupported_result(op) ==
    CASE op = "read" -> Err("User")
      [] op = "write" -> Err("User")
      [] op = "flush" -> Err("User")
      [] op = "enable" -> Err("User")
      [] op = "disable" -> Err("User")

Unsupported_call ==
    /\ variant = "Unsupported" /\ panicked = "none"
    /\ \E c \in ApiCalls :
          ret' = [c EXCEPT !.res = Unsupported_result(c.op), !.done = TRUE]
    /\ calls' = << >>
    /\ UNCHANGED << serialVars, pc, lastTick, hist, boardVars >>

\* Faulty variant: the stub returns the recoverable error of Unsupported.
Unimplemented_outcome_returns_user(op) ==
    [panic |-> "none", res |-> Err("User"), done |-> TRUE]

\* impl Api for Unimplemented: every function is unreachable!(), which
\* panics and returns nothing.
Unimplemented_outcome(op) ==
    [panic |-> "unreachable", res |-> NoResult, done |-> FALSE]

Unimplemented_call ==
    /\ variant = "Unimplemented" /\ panicked = "none"
    /\ \E c \in ApiCalls :
          /\ ret' = [c EXCEPT !.res = Unimplemented_outcome(c.op).res,
                              !.done = Unimplemented_outcome(c.op).done]
          /\ panicked' = Unimplemented_outcome(c.op).panic
    /\ calls' = << >>
    /\ UNCHANGED << serialVars, pc, lastTick, hist, variant, fs, BOARD, unmasked,
                    cs, borrowed, irq, latch, events, pushed, pushedOcc, ticked,
                    popped >>

InitApi ==
    /\ Serial_new
    /\ dtr \in BOOLEAN
    /\ pc = At("idle")
    /\ ret = NoCall /\ calls = << >> /\ lastTick = NoTick
    /\ hist = [e \in Event |-> << >>]
    /\ variant \in {"WithSerial", "Unsupported", "Unimplemented"}
    /\ fs = NoFs
    /\ InitBoardIdle

NextApi ==
    \/ (variant = "WithSerial" /\ NextSerial)
    \/ Unsupported_call
    \/ Unimplemented_call

SpecApi == InitApi /\ [][NextApi]_vars

(***************************************************************************)
(* The nordic runner (runner-nordic/src/main.rs).                          *)
(***************************************************************************)
\* const INTERRUPTS, in the order of the interrupts! invocation.
INTERRUPTS ==
    << "GPIOTE", "TIMER0", "TIMER1", "TIMER2", "TIMER3", "TIMER4", "USBD" >>
IrqGpiote == 1
\* Faulty variant: TIMERn is bound to timer(n - 1), TIMER0 to timer(4).
IrqTimer_shifted(n) == ((n + 1) % 5) + 2
\* interrupts!: TIMERn = timer(n); the position of TIMERn in INTERRUPTS.
IrqTimer(n) == n + 2
IrqUsbd == 7
\* NVIC::unmask(interrupt) has run for the first `unmasked` entries.
IsUnmasked(k) == k <= unmasked

\* Events::push and Events::pop of State.events (tasks::Events).
Events_push(q, e) == Append(q, e)
Events_pop(q) == Tail(q)

RECURSIVE PushAll(_, _)
PushAll(q, es) ==
    IF es = << >> THEN q ELSE PushAll(Events_push(q, Head(es)), Tail(es))

SerialEvents(es) == [i \in 1 .. Len(es) |-> SerialEvent(es[i])]

\* Faulty variant: the interrupts are unmasked before BOARD is set.
StartupOrder_unmask_first == << "construct", "unmask", "publish", "run" >>

\* main: STATE.write(..), then BOARD.set(Some(..)), then the unmask loop,
\* then Scheduler::run.
StartupOrder == << "construct", "publish", "unmask", "run" >>

NextAt(a) ==
    LET i == CHOOSE j \in 1 .. Len(StartupOrder) : StartupOrder[j] = a
    IN  At(StartupOrder[i + 1])

Running == panicked = "none"
MainRuns == Running /\ irq.h = "none"

\* main, line 133: the State is built (Serial::new, Events::default).
main_construct ==
    /\ MainRuns /\ pc.at = "construct"
    /\ pc' = NextAt("construct")
    /\ UNCHANGED << serialVars, recordVars, boardVars >>

\* main, line 147: critical_section::with(|cs| BOARD.borrow(cs).set(Some(..)))
main_publish ==
    /\ MainRuns /\ pc.at = "publish"
    /\ BOARD' = "Some"
    /\ pc' = NextAt("publish")
    /\ UNCHANGED << serialVars, recordVars, unmasked, cs, borrowed, irq,
                    latch, events, pushed, pushedOcc, ticked, popped, panicked >>

\* main, lines 148-150: one iteration of the loop over INTERRUPTS.
main_unmask ==
    /\ MainRuns /\ pc.at = "unmask"
    /\ unmasked < Len(INTERRUPTS)
    /\ unmasked' = unmasked + 1
    /\ pc' = IF unmasked' = Len(INTERRUPTS) THEN NextAt("unmask") ELSE pc
    /\ UNCHANGED << serialVars, recordVars, BOARD, cs, borrowed, irq, latch,
                    events, pushed, pushedOcc, ticked, popped, panicked >>

\* The #[interrupt] fn $name() of interrupts!: get_board() unwraps BOARD,
\* then the handler enters critical_section::with and calls
\* borrow_ref_mut.  The interrupt is taken only when unmasked, outside a
\* critical section, and when no handler is running.
irq_start(k, func, arg) ==
    /\ Running /\ irq.h = "none"
    /\ IsUnmasked(k)
    /\ ~cs
    /\ IF BOARD = "None"
       THEN /\ panicked' = "unwrap_none"
            /\ UNCHANGED << cs, borrowed, irq >>
       ELSE IF borrowed # {}
       THEN /\ panicked' = "BorrowMutError"
            /\ UNCHANGED << cs, borrowed, irq >>
       ELSE /\ cs' = TRUE
            /\ borrowed' = {"irq"}
            /\ irq' = [h |-> func, n |-> arg, at |-> INTERRUPTS[k], seen |-> {}]
            /\ UNCHANGED panicked
    /\ UNCHANGED << serialVars, pc, recordVars, BOARD, unmasked, latch,
                    events, pushed, pushedOcc, ticked, popped >>

\* The end of a handler's critical section and the return from interrupt.
irq_return ==
    /\ cs' = FALSE
    /\ borrowed' = borrowed \ {"irq"}
    /\ irq' = NoIrq

\* The number of the next interrupt occurrence that pushes an event.
NextOcc == IF pushedOcc = << >> THEN 1 ELSE pushedOcc[Len(pushedOcc)] + 1

\* Faulty variant: the loop over the buttons runs from the last to the first.
gpiote_button_reversed ==
    /\ Running /\ irq.h = "gpiote" /\ irq.n < NumButtons
    /\ LET b == NumButtons - 1 - irq.n
       IN  IF b \in latch
           THEN \E pressed \in BOOLEAN :
                  /\ events' = Events_push(events, ButtonEvent(b, pressed))
                  /\ pushed' = Append(pushed, ButtonEvent(b, pressed))
                  /\ pushedOcc' = Append(pushedOcc,
                        IF irq.seen = {} THEN NextOcc
                        ELSE pushedOcc[Len(pushedOcc)])
                  /\ irq' = [irq EXCEPT !.n = @ + 1, !.seen = @ \cup {b}]
           ELSE /\ UNCHANGED << events, pushed, pushedOcc >>
                /\ irq' = [irq EXCEPT !.n = @ + 1]
    /\ UNCHANGED << serialVars, pc, recordVars, BOARD, unmasked, cs, borrowed,
                    latch, popped, panicked, ticked >>

\* gpiote, lines 182-187: button irq.n of the loop; irq.seen collects the
\* channels this run found triggered.
gpiote_button ==
    /\ Running /\ irq.h = "gpiote" /\ irq.n < NumButtons
    /\ IF irq.n \in latch
       THEN \E pressed \in BOOLEAN :
              /\ events' = Events_push(events, ButtonEvent(irq.n, pressed))
              /\ pushed' = Append(pushed, ButtonEvent(irq.n, pressed))
              /\ pushedOcc' = Append(pushedOcc,
                    IF irq.seen = {} THEN NextOcc
                    ELSE pushedOcc[Len(pushedOcc)])
              /\ irq' = [irq EXCEPT !.n = @ + 1, !.seen = @ \cup {irq.n}]
       ELSE /\ UNCHANGED << events, pushed, pushedOcc >>
            /\ irq' = [irq EXCEPT !.n = @ + 1]
    /\ UNCHANGED << serialVars, pc, recordVars, BOARD, unmasked, cs, borrowed,
                    latch, popped, panicked, ticked >>

\* Faulty variant: the handler returns without reset_events.
gpiote_reset_keeps_events ==
    /\ Running /\ irq.h = "gpiote" /\ irq.n = NumButtons
    /\ irq_return
    /\ UNCHANGED << serialVars, pc, recordVars, BOARD, unmasked, latch, events,
                    pushed, pushedOcc, ticked, popped, panicked >>

\* gpiote, line 188: reset_events, then the critical section ends.
gpiote_reset ==
    /\ Running /\ irq.h = "gpiote" /\ irq.n = NumButtons
    /\ latch' = {}
    /\ irq_return
    /\ UNCHANGED << serialVars, pc, recordVars, BOARD, unmasked, events,
                    pushed, pushedOcc, ticked, popped, panicked >>

\* Faulty variant: a Timer event already queued is not queued again.
timer_body_coalescing ==
    /\ Running /\ irq.h = "timer"
    /\ events' = IF \E i \in 1 .. Len(events) : events[i] = TimerEvent(irq.n)
                 THEN events
                 ELSE Events_push(events, TimerEvent(irq.n))
    /\ pushed' = Append(pushed, TimerEvent(irq.n))
    /\ pushedOcc' = Append(pushedOcc, NextOcc)
    /\ ticked' = Append(ticked, irq.n)
    /\ irq_return
    /\ UNCHANGED << serialVars, pc, recordVars, BOARD, unmasked, latch,
                    popped, panicked >>

\* timer, lines 193-197: push the Timer event, timers.tick(timer).
timer_body ==
    /\ Running /\ irq.h = "timer"
    /\ events' = Events_push(events, TimerEvent(irq.n))
    /\ pushed' = Append(pushed, TimerEvent(irq.n))
    /\ pushedOcc' = Append(pushedOcc, NextOcc)
    /\ ticked' = Append(ticked, irq.n)
    /\ irq_return
    /\ UNCHANGED << serialVars, pc, recordVars, BOARD, unmasked, latch,
                    popped, panicked >>

\* Faulty variant: tick's pushes are not inside one critical section, and
\* a TIMER0 interrupt is served between two of them.
usbd_body_unprotected ==
    /\ Running /\ irq.h = "usbd"
    /\ \E polled \in BOOLEAN, d \in BOOLEAN :
          LET out == SerialEvents(tick(read_enabled, write_enabled, d, polled))
              mix == IF Len(out) = 2
                     THEN << out[1], TimerEvent(0), out[2] >>
                     ELSE out
              occ == IF Len(out) = 2
                     THEN << NextOcc, NextOcc + 1, NextOcc >>
                     ELSE [i \in 1 .. Len(out) |-> NextOcc]
          IN  /\ dtr' = d
              /\ events' = PushAll(events, mix)
              /\ pushed' = pushed \o mix
              /\ pushedOcc' = pushedOcc \o occ
    /\ irq_return
    /\ UNCHANGED << read_enabled, write_enabled, pc, recordVars, BOARD,
                    unmasked, latch, popped, panicked, ticked >>

\* Faulty variant: the push callback handed to Serial::tick takes the
\* State again (borrow_ref_mut) while the handler holds it.
usbd_body_reborrow ==
    /\ Running /\ irq.h = "usbd"
    /\ \E polled \in BOOLEAN, d \in BOOLEAN :
          LET out == SerialEvents(tick(read_enabled, write_enabled, d, polled))
          IN  /\ dtr' = d
              /\ IF out = << >>
                 THEN irq_return /\ UNCHANGED panicked
                 ELSE /\ panicked' = "BorrowMutError"
                      /\ UNCHANGED << cs, borrowed, irq >>
    /\ UNCHANGED << read_enabled, write_enabled, pc, recordVars, BOARD,
                    unmasked, latch, events, pushed, pushedOcc, ticked, popped >>

\* Faulty variant: the Write event is edge-triggered: it is pushed only by
\* the interrupt that sees DTR become asserted.
usbd_body_edge_triggered ==
    /\ Running /\ irq.h = "usbd"
    /\ \E polled \in BOOLEAN, d \in BOOLEAN :
          LET out == SerialEvents(tick(read_enabled, write_enabled,
                                       d /\ ~dtr, polled))
          IN  /\ dtr' = d
              /\ events' = PushAll(events, out)
              /\ pushed' = pushed \o out
              /\ pushedOcc' = pushedOcc \o [i \in 1 .. Len(out) |-> NextOcc]
    /\ irq_return
    /\ UNCHANGED << read_enabled, write_enabled, pc, recordVars, BOARD,
                    unmasked, latch, popped, panicked, ticked >>

\* usbd, lines 221-226: usb_dev.poll reports activity and handles the
\* host's control requests (which set DTR); then Serial::tick pushes.
usbd_body ==
    /\ Running /\ irq.h = "usbd"
    /\ \E polled \in BOOLEAN, d \in BOOLEAN :
          LET out == SerialEvents(tick(read_enabled, write_enabled, d, polled))
          IN  /\ dtr' = d
              /\ events' = PushAll(events, out)
              /\ pushed' = pushed \o out
              /\ pushedOcc' = pushedOcc \o [i \in 1 .. Len(out) |-> NextOcc]
    /\ irq_return
    /\ UNCHANGED << read_enabled, write_enabled, pc, recordVars, BOARD,
                    unmasked, latch, popped, panicked, ticked >>

\* The GPIOTE peripheral latches the event of channel i (a button edge).
gpiote_edge(i) ==
    /\ Running
    /\ i \notin latch
    /\ latch' = latch \cup {i}
    /\ UNCHANGED << serialVars, pc, recordVars, BOARD, unmasked, cs, borrowed,
                    irq, events, pushed, pushedOcc, ticked, popped, panicked >>

(***************************************************************************)
(* Main-line capability calls of the nordic runner.  Each access to the    *)
(* State is critical_section::with(|cs| board.0.borrow_ref_mut(cs) ...).   *)
(***************************************************************************)
\* critical_section::with entered and borrow_ref_mut taken by main-line.
acquire(op, arg) ==
    /\ MainRuns /\ pc.at \in {"run", "between"}
    /\ IF borrowed # {}
       THEN /\ panicked' = "BorrowMutError"
            /\ UNCHANGED << pc, cs, borrowed >>
       ELSE /\ cs' = TRUE
            /\ borrowed' = {"main"}
            /\ pc' = Held(op, arg)
            /\ UNCHANGED panicked
    /\ UNCHANGED << serialVars, recordVars, BOARD, unmasked, irq, latch,
                    events, pushed, pushedOcc, ticked, popped >>

\* The RefMut is dropped and the critical section ends.
release ==
    /\ cs' = FALSE
    /\ borrowed' = borrowed \ {"main"}

heldFrame == << BOARD, unmasked, irq, latch, panicked >>

\* Faulty variant: the State is borrowed with interrupts left enabled.
rng_fill_bytes_acquire_no_cs ==
    /\ MainRuns /\ pc.at = "run"
    /\ IF borrowed # {}
       THEN /\ panicked' = "BorrowMutError"
            /\ UNCHANGED << pc, cs, borrowed >>
       ELSE /\ cs' = cs
            /\ borrowed' = {"main"}
            /\ pc' = Held("fill_bytes", "none")
            /\ UNCHANGED panicked
    /\ UNCHANGED << serialVars, recordVars, BOARD, unmasked, irq, latch,
                    events, pushed, pushedOcc, ticked, popped >>

\* rng.rs fill_bytes, line 19: critical_section::with, borrow_ref_mut.
rng_fill_bytes_acquire ==
    /\ pc.at = "run"
    /\ acquire("fill_bytes", "none")

\* Faulty variant: an empty buffer is refused.
rng_fill_bytes_result_refuses_empty(n) ==
    IF n = 0 THEN Err("User") ELSE OkUnit

\* rng.rs fill_bytes, line 20: Ok(()) whatever the buffer of n bytes.
rng_fill_bytes_result(n) == OkUnit

\* rng.rs fill_bytes, lines 19-20: rng.random(buffer), the critical
\* section ends, Ok(()) is returned.  ret and calls are left to the caller
\* of this step: Spec keeps no record, SpecRng records the call.
rng_fill_bytes_body ==
    /\ MainRuns /\ pc = Held("fill_bytes", "none")
    /\ release
    /\ pc' = At("run")
    /\ UNCHANGED << serialVars, lastTick, hist, variant, fs, heldFrame, events,
                    pushed, pushedOcc, ticked, popped >>

\* runner-host rng.rs fill_bytes, line 21: Ok(()) whatever the buffer.
host_fill_bytes_result(n) == OkUnit

\* runner-host rng.rs fill_bytes: rand::thread_rng().fill_bytes(buffer),
\* then Ok(()).  The host runner has no interrupt and no critical section.
host_fill_bytes ==
    /\ Running /\ pc = At("host")
    /\ \E n \in 0 .. MaxLen :
          ret' = Call("fill_bytes", "host", n, FALSE, NoAns,
                      host_fill_bytes_result(n), TRUE)
    /\ calls' = << "thread_rng.fill_bytes" >>
    /\ UNCHANGED << serialVars, pc, lastTick, hist, boardVars >>

\* The consumer (the scheduler) takes the State to pop an event.
pop_acquire ==
    /\ pc.at = "run"
    /\ acquire("pop", "none")

\* The consumer pops the head of the queue, if any.
pop_body ==
    /\ MainRuns /\ pc = Held("pop", "none")
    /\ IF events = << >>
       THEN UNCHANGED << events, popped >>
       ELSE /\ popped' = Append(popped, Head(events))
            /\ events' = Events_pop(events)
    /\ release
    /\ pc' = At("run")
    /\ UNCHANGED << serialVars, recordVars, heldFrame, pushed, pushedOcc, ticked >>

\* WithSerial::enable / disable on the runner: with_serial is entered.
serial_set_acquire ==
    /\ pc.at = "run"
    /\ \E event \in Event, op \in {"enable", "disable"} : acquire(op, event)

\* Faulty variant: disable drops the queued events of its kind.
serial_set_body_purges ==
    /\ MainRuns /\ pc.at = "held" /\ pc.op \in {"enable", "disable"}
    /\ set(pc.arg, pc.op = "enable")
    /\ events' = IF pc.op = "disable"
                 THEN SelectSeq(events, LAMBDA e : e # SerialEvent(pc.arg))
                 ELSE events
    /\ release
    /\ pc' = At("run")
    /\ UNCHANGED << dtr, recordVars, heldFrame, pushed, pushedOcc, ticked,
                    popped >>

\* WithSerial::enable / disable: serial.set(event, ..), Ok(()).
serial_set_body ==
    /\ MainRuns /\ pc.at = "held" /\ pc.op \in {"enable", "disable"}
    /\ set(pc.arg, pc.op = "enable")
    /\ release
    /\ pc' = At("run")
    /\ UNCHANGED << dtr, recordVars, heldFrame, events, pushed, pushedOcc, ticked, popped >>

\* WithSerial::read / flush on the runner: with_serial is entered.
serial_io_acquire ==
    /\ pc.at = "run"
    /\ \E op \in {"read", "flush"} : acquire(op, "none")

\* WithSerial::read / flush: the transport call, then the match.
serial_io_body ==
    /\ MainRuns /\ pc.at = "held" /\ pc.op \in {"read", "flush"}
    /\ release
    /\ pc' = At("run")
    /\ UNCHANGED << serialVars, recordVars, heldFrame, events, pushed, pushedOcc, ticked,
                    popped >>

\* WithSerial::write, line 167: the first with_serial is entered.
serial_write_acquire ==
    /\ pc.at = "run"
    /\ acquire("write_check", "none")

\* WithSerial::write, lines 167-170: port.dtr() is read, the critical
\* section ends; Ok(0) is returned if DTR is not asserted.
serial_write_check ==
    /\ MainRuns /\ pc = Held("write_check", "none")
    /\ release
    /\ pc' = IF write_ready(dtr) THEN At("between") ELSE At("run")
    /\ UNCHANGED << serialVars, recordVars, heldFrame, events, pushed, pushedOcc, ticked,
                    popped >>

\* WithSerial::write, line 171: the second with_serial is entered.
serial_write_acquire2 ==
    /\ pc.at = "between"
    /\ acquire("write_xmit", "none")

\* WithSerial::write, lines 171-181: port.write(input), then the match.
serial_write_xmit ==
    /\ MainRuns /\ pc = Held("write_xmit", "none")
    /\ release
    /\ pc' = At("run")
    /\ UNCHANGED << serialVars, recordVars, heldFrame, events, pushed, pushedOcc, ticked,
                    popped >>

(***************************************************************************)
(* The interrupts the hardware raises in the model.                        *)
(***************************************************************************)
TimerIrqs == 0 .. (Min(MaxTimerIrq, NumTimers) - 1)
EdgeButtons == 0 .. (Min(MaxButtonEdge, NumButtons) - 1)
IrqBound == Len(pushed) < MaxPushed

GPIOTE == IrqBound /\ irq_start(IrqGpiote, "gpiote", 0)
TIMER == IrqBound /\ \E n \in TimerIrqs : irq_start(IrqTimer(n), "timer", n)
USBD == IrqBound /\ irq_start(IrqUsbd, "usbd", 0)
Edge == IrqBound /\ \E i \in EdgeButtons : gpiote_edge(i)

Handlers ==
    \/ GPIOTE
    \/ TIMER
    \/ USBD
    \/ gpiote_button
    \/ gpiote_reset
    \/ timer_body
    \/ usbd_body
    \/ Edge

InitRecords ==
    /\ ret = NoCall /\ calls = << >> /\ lastTick = NoTick
    /\ hist = [e \in Event |-> << >>]
    /\ variant = "WithSerial"
    /\ fs = NoFs

(***************************************************************************)
(* SpecBoot: main from the construction of the State to Scheduler::run,    *)
(* with the interrupts that are taken on the way.                          *)
(***************************************************************************)
InitBoot ==
    /\ Serial_new /\ dtr = FALSE
    /\ pc = At(StartupOrder[1])
    /\ InitRecords
    /\ BOARD = "None" /\ unmasked = 0 /\ cs = FALSE /\ borrowed = {}
    /\ irq = NoIrq /\ latch = {}
    /\ events = << >> /\ pushed = << >> /\ popped = << >>
    /\ pushedOcc = << >>
    /\ ticked = << >>
    /\ panicked = "none"

NextBoot ==
    \/ main_construct
    \/ main_publish
    \/ main_unmask
    \/ Handlers

SpecBoot == InitBoot /\ [][NextBoot]_vars

(***************************************************************************)
(* Spec: the runner once main has entered Scheduler::run: the main-line    *)
(* capability calls and the consumer, preempted by the handlers.           *)
(***************************************************************************)
Init ==
    /\ Serial_new /\ dtr \in BOOLEAN
    /\ pc = At("run")
    /\ InitRecords
    /\ BOARD = "Some" /\ unmasked = Len(INTERRUPTS)
    /\ cs = FALSE /\ borrowed = {}
    /\ irq = NoIrq /\ latch = {}
    /\ events = << >> /\ pushed = << >> /\ popped = << >>
    /\ pushedOcc = << >>
    /\ ticked = << >>
    /\ panicked = "none"

MainLine ==
    \/ rng_fill_bytes_acquire
    \/ (rng_fill_bytes_body /\ UNCHANGED << ret, calls >>)
    \/ pop_acquire
    \/ pop_body
    \/ serial_set_acquire
    \/ serial_set_body
    \/ serial_io_acquire
    \/ serial_io_body
    \/ serial_write_acquire
    \/ serial_write_check
    \/ serial_write_acquire2
    \/ serial_write_xmit

Next == MainLine \/ Handlers

Spec == Init /\ [][Next]_vars

\* FairSpec: the handlers, with the consumer and enable/disable as the
\* main-line they interrupt.  A handler that has started runs to its end:
\* its body is straight-line code and a loop over the NumButtons buttons,
\* run with interrupts disabled.
NextIrq ==
    \/ Handlers
    \/ pop_acquire
    \/ pop_body
    \/ serial_set_acquire
    \/ serial_set_body

FairSpec ==
    /\ Init /\ [][NextIrq]_vars
    /\ WF_vars(gpiote_button)
    /\ WF_vars(gpiote_reset)
    /\ WF_vars(timer_body)
    /\ WF_vars(usbd_body)

(***************************************************************************)
(* SpecRng: the RNG capability of both runners: the nordic fill_bytes with *)
(* the TIMER and USBD interrupts and the consumer around it, and the host  *)
(* one.                                                                    *)
(***************************************************************************)
InitRng ==
    /\ Serial_new
    /\ InitRecords
    /\ \/ /\ pc = At("run") /\ dtr \in BOOLEAN
          /\ BOARD = "Some" /\ unmasked = Len(INTERRUPTS)
       \/ /\ pc = At("host") /\ dtr = FALSE
          /\ BOARD = "None" /\ unmasked = 0
    /\ cs = FALSE /\ borrowed = {}
    /\ irq = NoIrq /\ latch = {}
    /\ events = << >> /\ pushed = << >> /\ popped = << >>
    /\ pushedOcc = << >>
    /\ ticked = << >>
    /\ panicked = "none"

\* The nordic fill_bytes returns to its caller with its result.
rng_fill_bytes_return ==
    /\ rng_fill_bytes_body
    /\ \E n \in 0 .. MaxLen :
          ret' = Call("fill_bytes", "nordic", n, FALSE, NoAns,
                      rng_fill_bytes_result(n), TRUE)
    /\ calls' = << "rng.random" >>

NextRng ==
    \/ rng_fill_bytes_acquire
    \/ rng_fill_bytes_return
    \/ host_fill_bytes
    \/ TIMER
    \/ timer_body
    \/ USBD
    \/ usbd_body
    \/ pop_acquire
    \/ pop_body

SpecRng == InitRng /\ [][NextRng]_vars

(***************************************************************************)
(* SpecXtask: the applet builds of xtask, from any content of the target   *)
(* directory.                                                              *)
(***************************************************************************)
xtaskFrame == << serialVars, pc, ret, calls, lastTick, hist, variant, BOARD,
                 unmasked, cs, borrowed, irq, latch, events, pushed, popped,
                 pushedOcc, ticked, panicked >>

\* AppletOptions::execute_rust, lines 243-285: cargo builds the wasm of
\* the applet's current version, then copy_if_changed(&wasm,
\* "target/applet.wasm") runs; execute_wasm follows iff it returned true.
execute_rust ==
    /\ fs.at = "idle"
    /\ \E v \in Versions :
          LET src == Wasm(v)
              r == copy_if_changed(src, fs.dst, fs.hash)
          IN  fs' = [src |-> src, dst |-> r.dst, hash |-> r.hash,
                     at |-> IF r.ret THEN "execute_wasm" ELSE "idle",
                     ret |-> IF r.ret THEN "true" ELSE "false",
                     before |-> [dst |-> fs.dst, hash |-> fs.hash],
                     seq |-> 1 - fs.seq, ran |-> FALSE]
    /\ UNCHANGED xtaskFrame

\* AppletOptions::execute_wasm, lines 312-336: wasm-strip and wasm-opt
\* rewrite target/applet.wasm in place.
execute_wasm ==
    /\ fs.at = "execute_wasm"
    /\ fs' = [fs EXCEPT !.dst = Optimized(@), !.at = "idle", !.ran = TRUE]
    /\ UNCHANGED xtaskFrame

\* AppletOptions::execute_assemblyscript, lines 287-310: asc writes
\* target/applet.wasm itself and execute_wasm always runs; dst.hash is
\* not touched.
execute_assemblyscript ==
    /\ fs.at = "idle"
    /\ fs' = [fs EXCEPT !.dst = AscOutput]
    /\ UNCHANGED xtaskFrame

InitXtask ==
    /\ Serial_new /\ dtr = FALSE
    /\ pc = At("idle")
    /\ ret = NoCall /\ calls = << >> /\ lastTick = NoTick
    /\ hist = [e \in Event |-> << >>]
    /\ variant = "WithSerial"
    /\ InitBoardIdle
    /\ \E src \in Contents,
          dst \in {Absent, AscOutput} \cup Contents
                   \cup { Optimized(c) : c \in Contents },
          hash \in {Absent, Garbage} \cup { Sha256(c) : c \in Contents } :
          fs = [NoFs EXCEPT !.src = src, !.dst = dst, !.hash = hash]

NextXtask ==
    \/ execute_rust
    \/ execute_wasm
    \/ execute_assemblyscript

SpecXtask == InitXtask /\ [][NextXtask]_vars

(***************************************************************************)
(* SpecTimers: the five TIMER interrupts and the consumer alone.           *)
(***************************************************************************)
TIMER_all ==
    /\ Len(pushed) < MaxPushedTimers
    /\ \E n \in 0 .. (NumTimers - 1) : irq_start(IrqTimer(n), "timer", n)

NextTimers ==
    \/ TIMER_all
    \/ timer_body
    \/ pop_acquire
    \/ pop_body

SpecTimers == Init /\ [][NextTimers]_vars

(***************************************************************************)
(* SpecButtons: the GPIOTE and TIMER handlers and the consumer alone, with *)
(* several buttons seeing edges.                                           *)
(***************************************************************************)
ButtonsBound == Len(pushed) < MaxPushedButtons

GPIOTE_buttons == ButtonsBound /\ irq_start(IrqGpiote, "gpiote", 0)
TIMER_buttons ==
    ButtonsBound /\ \E n \in TimerIrqs : irq_start(IrqTimer(n), "timer", n)
Edge_buttons ==
    /\ ButtonsBound
    /\ \E i \in 0 .. (Min(MaxEdgeButtons, NumButtons) - 1) : gpiote_edge(i)

NextButtons ==
    \/ GPIOTE_buttons
    \/ TIMER_buttons
    \/ Edge_buttons
    \/ gpiote_button
    \/ gpiote_reset
    \/ timer_body
    \/ pop_acquire
    \/ pop_body

SpecButtons == Init /\ [][NextButtons]_vars


(***************************************************************************)
(* Properties of the serial driver, checked under SpecSerial.              *)
(***************************************************************************)
Last(q) == q[Len(q)]
Occurrences(q, x) == Cardinality({ i \in 1 .. Len(q) : q[i] = x })
Flag(event) == IF event = Read THEN read_enabled ELSE write_enabled

\* C1: a call of Serial::tick pushes a Read event iff read_enabled and
\* polled are both true at the call; with polled false it never pushes Read,
\* whatever the flags and DTR are.
C1_TickReadIff ==
    lastTick.called =>
        ((Occurrences(lastTick.out, Read) > 0)
            <=> (lastTick.re /\ lastTick.polled))

C1_Witness ==
    /\ lastTick.called /\ ~lastTick.polled
    /\ lastTick.re /\ lastTick.we /\ lastTick.dtr
    /\ Occurrences(lastTick.out, Read) = 0

\* C2: a call of Serial::tick pushes a Write event iff write_enabled is true
\* and DTR is asserted at the call, for polled true and polled false alike.
C2_TickWriteIff ==
    lastTick.called =>
        ((Occurrences(lastTick.out, Write) > 0)
            <=> (lastTick.we /\ lastTick.dtr))

C2_Witness ==
    /\ lastTick.called /\ ~lastTick.polled /\ ~lastTick.re
    /\ lastTick.out = << Write >>

\* C3: one call of Serial::tick pushes at most one Read and at most one
\* Write; when it pushes both, Read comes first; with only Read subscribed,
\* tick(true) pushes exactly one Read and no Write.
C3_TickAtMostOnceInOrder ==
    lastTick.called =>
        /\ Occurrences(lastTick.out, Read) <= 1
        /\ Occurrences(lastTick.out, Write) <= 1
        /\ (Occurrences(lastTick.out, Read) = 1
              /\ Occurrences(lastTick.out, Write) = 1)
             => lastTick.out = << Read, Write >>
        /\ (lastTick.re /\ ~lastTick.we /\ lastTick.polled)
             => lastTick.out = << Read >>

C3_Witness ==
    /\ lastTick.called /\ lastTick.polled
    /\ lastTick.out = << Read, Write >>

\* C4: after any sequence of enable/disable calls on a fresh Serial, the
\* flag of each event kind is true iff the last call naming that kind was an
\* enable, and false if no call named it.  (Repeating a call leaves the
\* state as it was: before and after it the flags are those of the same
\* last calls.)
C4_LastCallWins ==
    \A event \in Event :
        Flag(event) = (hist[event] # << >> /\ Last(hist[event]))

C4_Witness ==
    /\ hist[Read] = << TRUE, FALSE >> /\ ~read_enabled
    /\ hist[Write] = << TRUE, TRUE >> /\ write_enabled

\* C8: a write whose DTR check saw the signal not asserted returns Ok(0)
\* without calling the transport's write, for every non-empty buffer and
\* whatever the subscription flags are.
C8_WriteNotReady ==
    (ret.op = "write" /\ ~ret.dtrSeen /\ ret.buf >= 1) =>
        /\ ret.done /\ pc = At("idle")
        /\ ret.res = Ok(0)
        /\ calls = << "dtr" >>

C8_Witness ==
    /\ ret.op = "write" /\ ret.done /\ ~ret.dtrSeen /\ ret.buf >= 1
    /\ read_enabled /\ write_enabled

\* C9: a read or write that the transport answers with UsbError::WouldBlock
\* returns Ok(0), never an error.
C9_WouldBlockIsOkZero ==
    (ret.done /\ ret.op \in {"read", "write"} /\ ret.ans = Err(WouldBlock))
        => ret.res = Ok(0)

C9_Witness ==
    /\ ret.done /\ ret.op = "write" /\ ret.buf >= 1
    /\ ret.ans = Err(WouldBlock) /\ calls = << "dtr", "write" >>

\* C10: a read or write that the transport answers with a fault other than
\* would-block returns Err(Error::World) after exactly one call of the
\* transport's read or write (no retry); and no call of the concrete
\* implementation returns Error::User.
C10_FaultIsWorld ==
    /\ (ret.done /\ ret.op \in {"read", "write"} /\ ret.ans.tag = "Err"
          /\ ret.ans.err \in UsbFault)
         => /\ ret.res = Err("World")
            /\ Occurrences(calls, ret.op) = 1
    /\ ret.res.err # "User"

C10_Witness ==
    /\ ret.done /\ ret.op = "write" /\ ret.ans = Err("InvalidState")
    /\ ret.res = Err("World")

\* C11 (as claimed): no read, write or flush returns an error when the
\* transport answers with would-block.  The flush of the code does.
C11_NoErrorOnWouldBlock ==
    (ret.done /\ ret.op \in {"read", "write", "flush"}
      /\ ret.ans = Err(WouldBlock))
        => ret.res.tag = "Ok"

\* C12: flush calls the transport's flush exactly once, returns Ok(()) iff
\* the transport reports success, and answers every transport fault,
\* would-block included, with Err(Error::World).
C12_FlushDelegates ==
    (ret.done /\ ret.op = "flush") =>
        /\ calls = << "flush" >>
        /\ (ret.res = OkUnit) <=> (ret.ans.tag = "Ok")
        /\ ret.ans.tag = "Err" => ret.res = Err("World")

C12_Witness ==
    /\ ret.done /\ ret.op = "flush"
    /\ ret.ans = Err(WouldBlock) /\ ret.res = Err("World")

\* C15 (as claimed): write_enabled is true only if DTR is asserted.
C15_WriteEnabledImpliesDtr == write_enabled => dtr

\* C15 (amended): write_enabled can be true while DTR is not asserted, but
\* a tick pushes no Write event when DTR is not asserted at that tick, even
\* with write_enabled set.
C15_NoWriteEventWithoutDtr ==
    (lastTick.called /\ ~lastTick.dtr) =>
        Occurrences(lastTick.out, Write) = 0

C15_Witness ==
    /\ write_enabled /\ ~dtr
    /\ lastTick.called /\ lastTick.we /\ ~lastTick.dtr /\ lastTick.polled
    /\ Occurrences(lastTick.out, Write) = 0

\* C18: on the concrete driver enable(event) and disable(event) return
\* Ok(()) for both event kinds in every state, whatever DTR is and whatever
\* the transport answered to an earlier read or write.
C18_SetAlwaysOk ==
    ret.op \in {"enable", "disable"} => (ret.done /\ ret.res = OkUnit)

C18_Witness ==
    /\ ret.op = "disable" /\ ret.arg = Write /\ ret.done /\ ~dtr
    /\ hist[Write] = << TRUE, FALSE >>

\* C22: a tick made while the last enable/disable call naming an event kind
\* is a disable (or no call named it) pushes no event of that kind, whatever
\* polled and DTR are; a tick made while the last such call is an enable
\* pushes one event of that kind as soon as its condition holds (polled for
\* Read, DTR for Write).
C22_DisableStopsDelivery ==
    [][lastTick' # lastTick =>
         \A event \in Event :
            LET on == hist[event] # << >> /\ Last(hist[event])
                cond == IF event = Read THEN lastTick'.polled
                        ELSE lastTick'.dtr
            IN  /\ ~on => Occurrences(lastTick'.out, event) = 0
                /\ (on /\ cond) => Occurrences(lastTick'.out, event) = 1]_vars

C22_Witness ==
    /\ hist[Read] = << FALSE, TRUE >>
    /\ hist[Write] = << TRUE, FALSE >>
    /\ lastTick.called /\ lastTick.polled /\ lastTick.dtr
    /\ lastTick.re /\ ~lastTick.we
    /\ lastTick.out = << Read >>

\* C28: a flag changes only in an enable or a disable call naming its own
\* event kind: a step that records no such call for a kind leaves that
\* kind's flag unchanged; in particular Serial::tick and read, write and
\* flush, whatever they return, change neither flag.
C28_FlagsChangeOnlyBySet ==
    [][/\ hist'[Read] = hist[Read] => read_enabled' = read_enabled
       /\ hist'[Write] = hist[Write] => write_enabled' = write_enabled
       /\ (lastTick' # lastTick \/ calls' # << >>) =>
             (read_enabled' = read_enabled
                /\ write_enabled' = write_enabled)]_vars

C28_Witness ==
    /\ ret.done /\ ret.op = "read" /\ ret.res = Err("World")
    /\ lastTick.called /\ lastTick.out = << Read >>
    /\ hist[Read] = << TRUE >> /\ read_enabled
    /\ hist[Write] = << TRUE, FALSE >> /\ ~write_enabled

\* C13 (under SpecApi): with the Unsupported variant every call (read,
\* write, flush, enable, disable), for every argument and after any earlier
\* calls, returns Err(Error::User): never Ok, never Error::World, no panic.
C13_UnsupportedIsUser ==
    (variant = "Unsupported" /\ ret.op # "none") =>
        /\ ret.done
        /\ ret.res = Err("User")
        /\ panicked = "none"

C13_Witness ==
    /\ variant = "Unsupported" /\ ret.op = "enable" /\ ret.arg = Write
    /\ ret.done /\ ret.res = Err("User")

\* C14 (under SpecApi): with the Unimplemented variant every call panics
\* and returns no value: neither Ok nor Err(Error::User) nor
\* Err(Error::World) reaches the caller.
C14_UnimplementedPanics ==
    (variant = "Unimplemented" /\ ret.op # "none") =>
        /\ panicked = "unreachable"
        /\ ~ret.done
        /\ ret.res.tag = "none"

C14_Witness ==
    /\ variant = "Unimplemented" /\ ret.op = "flush"
    /\ panicked = "unreachable" /\ ~ret.done

OfOcc(o) == { a \in 1 .. Len(pushed) : pushedOcc[a] = o }

\* C16 (under SpecButtons): the Button events one GPIOTE occurrence queues
\* are exactly one per channel it found triggered, in increasing button
\* index; the consumer pops in queue order, so both events of an occurrence
\* that saw buttons i < j are popped, i first, before any Timer event
\* that a later timer interrupt queued.
C16_ButtonsInIndexOrder ==
    /\ popped \o events = pushed
    /\ Len(pushedOcc) = Len(pushed)
    /\ \A a, b \in 1 .. Len(pushed) :
          a < b =>
            /\ pushedOcc[a] <= pushedOcc[b]
            /\ (pushedOcc[a] = pushedOcc[b] /\ pushed[a].kind = "Button")
                  => /\ pushed[b].kind = "Button"
                     /\ pushed[a].index < pushed[b].index
    /\ (irq.h = "gpiote" /\ irq.seen # {}) =>
          /\ Cardinality(OfOcc(Last(pushedOcc))) = Cardinality(irq.seen)
          /\ { pushed[a].index : a \in OfOcc(Last(pushedOcc)) } = irq.seen

C16_Witness ==
    /\ Len(popped) = 3
    /\ popped[1].kind = "Button" /\ popped[1].index = 0
    /\ popped[2].kind = "Button" /\ popped[2].index = 1
    /\ pushedOcc[1] = pushedOcc[2]
    /\ popped[3] = TimerEvent(0) /\ pushedOcc[3] > pushedOcc[2]

\* C17 (under Spec): every push happens inside a handler's critical
\* section, which the handler keeps until it returns; so the events of one
\* interrupt occurrence are contiguous in the queue and in generation order
\* (Read before Write, buttons by index): no event of another occurrence
\* lies between two events of the same occurrence.
C17_OccurrenceContiguous ==
    /\ [](/\ popped \o events = pushed
          /\ Len(pushedOcc) = Len(pushed)
          /\ irq.h # "none" => (cs /\ borrowed = {"irq"})
          /\ \A a, c \in 1 .. Len(pushed) :
                (a < c /\ pushedOcc[a] = pushedOcc[c]) =>
                  /\ \A b \in a .. c : pushedOcc[b] = pushedOcc[a]
                  /\ pushed[a].kind = pushed[c].kind
                  /\ pushed[a].kind = "Serial" =>
                        (pushed[a].detail = Read /\ pushed[c].detail = Write)
                  /\ pushed[a].kind = "Button" =>
                        pushed[a].index < pushed[c].index
                  /\ pushed[a].kind # "Timer")
    /\ [][pushed' # pushed =>
            /\ cs /\ borrowed = {"irq"} /\ irq.h # "none"
            /\ (irq'.h # "none" => cs')]_vars

C17_Witness ==
    /\ pushed = << TimerEvent(0), SerialEvent(Read), SerialEvent(Write) >>
    /\ pushedOcc = << 1, 2, 2 >>
    /\ events = pushed

\* C19 (under SpecRng): fill_bytes returns Ok(()) for every buffer on the
\* host and on the nordic runner, never an error; on the nordic runner
\* the fill runs in one critical section that takes the State's borrow
\* once, from a state where it is free, and has released it on return.
C19_FillBytesAlwaysOk ==
    /\ [](/\ ret.op = "fill_bytes" => (ret.done /\ ret.res = OkUnit)
          /\ panicked = "none"
          /\ pc = Held("fill_bytes", "none") =>
                (cs /\ borrowed = {"main"} /\ irq.h = "none")
          /\ pc.at \in {"run", "host"} => "main" \notin borrowed
          /\ (pc.at \in {"run", "host"} /\ irq.h = "none") => ~cs)
    /\ [][/\ (pc' = Held("fill_bytes", "none") /\ pc' # pc) =>
              (pc = At("run") /\ ~cs /\ borrowed = {})
          /\ (ret' # ret /\ ret'.arg = "nordic") =>
              /\ pc = Held("fill_bytes", "none") /\ cs
              /\ pc' = At("run") /\ ~cs' /\ borrowed' = {}
          /\ (ret' # ret /\ ret'.arg = "host") =>
              (~cs /\ ~cs' /\ borrowed' = {})]_vars

C19_Witness ==
    /\ ret = Call("fill_bytes", "nordic", MaxLen, FALSE, NoAns, OkUnit, TRUE)
    /\ pc = At("run") /\ ~cs /\ borrowed = {}
    /\ pushed # << >>

\* C20 (under FairSpec): a handler takes the State only when it starts, from
\* a state where nobody holds it; while it runs it keeps that one borrow
\* and its critical section and borrow_ref_mut never fails (no second
\* acquisition, in the push callback of Serial::tick or elsewhere); when
\* it ends the State is released; and every handler that started ends, so
\* main-line execution resumes.
C20_HandlerAcquiresOnceAndEnds ==
    /\ [](/\ irq.h # "none" => (cs /\ borrowed = {"irq"})
          /\ irq.h = "none" => "irq" \notin borrowed
          /\ panicked # "BorrowMutError")
    /\ [][/\ ("irq" \in borrowed' /\ "irq" \notin borrowed) =>
              (irq.h = "none" /\ irq'.h # "none" /\ borrowed = {} /\ ~cs)
          /\ (irq.h # "none" /\ irq'.h = "none") =>
              (borrowed' = {} /\ ~cs')]_vars
    /\ (irq.h \in {"gpiote", "timer", "usbd"}) ~>
          (irq.h = "none" /\ borrowed = {} /\ ~cs)

C20_Witness ==
    /\ pushed = << SerialEvent(Read), SerialEvent(Write) >>
    /\ irq.h = "none"
    /\ pc = Held("pop", "none") /\ borrowed = {"main"} /\ cs

\* C21 (under Spec): whenever main-line is inside the second with_serial of
\* WithSerial::write, about to call port.write, DTR is asserted: no
\* interrupt deasserts DTR between the flow-control check and the
\* transmission.
C21_XmitOnlyWithDtr ==
    pc = Held("write_xmit", "none") => dtr

\* C23 (under Spec): the Write event is level-triggered: a USBD interrupt
\* whose tick finds write_enabled set and DTR asserted pushes exactly one
\* Write event, whether or not the poll reported activity and whether or
\* not DTR changed since the previous interrupt; no other step pushes a
\* Write event.  So the Write events pushed number the ticks made with
\* write_enabled set and DTR asserted.
C23_WriteLevelTriggered ==
    [][Occurrences(pushed', SerialEvent(Write))
         = Occurrences(pushed, SerialEvent(Write))
           + (IF irq.h = "usbd" /\ irq'.h = "none" /\ write_enabled /\ dtr'
              THEN 1 ELSE 0)]_vars

C23_Witness ==
    /\ pushed = << SerialEvent(Write), SerialEvent(Write) >>
    /\ pushedOcc = << 1, 2 >>
    /\ read_enabled /\ write_enabled /\ dtr

\* The timer index n of interrupt source TIMERn.
TimerOf(name) ==
    CASE name = "TIMER0" -> 0 [] name = "TIMER1" -> 1 [] name = "TIMER2" -> 2
      [] name = "TIMER3" -> 3 [] name = "TIMER4" -> 4

\* C24 (under SpecTimers): the handler of interrupt TIMERn runs timer(n);
\* one occurrence, inside one critical section, pushes exactly one event,
\* the Timer event of index n, and calls timers.tick(n); no other event
\* is pushed and timers.tick is called for no other index.
C24_TimerPushesOwnIndex ==
    /\ [](irq.h = "timer" =>
            /\ irq.at \in {"TIMER0", "TIMER1", "TIMER2", "TIMER3", "TIMER4"}
            /\ irq.n = TimerOf(irq.at)
            /\ cs /\ borrowed = {"irq"})
    /\ [][/\ (irq.h = "timer" /\ irq'.h = "none") =>
              /\ pushed' = Append(pushed, TimerEvent(TimerOf(irq.at)))
              /\ events' = Append(events, TimerEvent(TimerOf(irq.at)))
              /\ ticked' = Append(ticked, TimerOf(irq.at))
              /\ cs /\ ~cs'
          /\ (pushed' # pushed \/ ticked' # ticked) =>
              (irq.h = "timer" /\ irq'.h = "none")]_vars

C24_Witness ==
    /\ pushed = << TimerEvent(4), TimerEvent(1) >>
    /\ ticked = << 4, 1 >>
    /\ irq.h = "none" /\ ~cs

\* C25 (under SpecButtons): a GPIOTE handler run examines the buttons
\* 0..3 in increasing order; the step for button i pushes exactly one
\* Button event of index i if channel i's event is triggered and nothing
\* otherwise; the run ends, after the four buttons, with every channel
\* event reset and without a further push; so a run during which no channel
\* is triggered pushes nothing.
C25_OneEventPerTriggeredChannel ==
    /\ [](irq.h = "gpiote" =>
            /\ irq.n \in 0 .. NumButtons
            /\ \A i \in irq.seen : i < irq.n
            /\ cs /\ borrowed = {"irq"})
    /\ [][/\ (irq.h = "gpiote" /\ irq'.h = "gpiote" /\ irq' # irq) =>
              /\ irq'.n = irq.n + 1
              /\ irq.n \in latch =>
                    /\ \E pressed \in BOOLEAN :
                          pushed' = Append(pushed, ButtonEvent(irq.n, pressed))
                    /\ irq'.seen = irq.seen \cup {irq.n}
              /\ irq.n \notin latch =>
                    (pushed' = pushed /\ irq'.seen = irq.seen)
          /\ (irq.h = "gpiote" /\ irq'.h = "none") =>
              (irq.n = NumButtons /\ latch' = {} /\ pushed' = pushed)
          /\ (irq.h = "none" /\ irq'.h = "gpiote") =>
              (irq'.n = 0 /\ irq'.seen = {} /\ pushed' = pushed)
          /\ (irq' = irq /\ irq.h = "gpiote") => pushed' = pushed]_vars

C25_Witness ==
    /\ pushed = << ButtonEvent(0, TRUE), ButtonEvent(1, FALSE) >>
    /\ pushedOcc = << 1, 1 >>
    /\ irq.h = "gpiote" /\ irq.n = NumButtons /\ irq.seen = {}
    /\ latch = {}

\* C27 (as claimed, under SpecButtons): when the GPIOTE handler has examined
\* the four buttons and is about to call reset_events, every channel event
\* the hardware has latched has produced a Button event in this run.  An
\* edge latched after its channel was examined breaks this: reset_events
\* clears it unreported.
C27_NoLatchedEdgeLost ==
    (irq.h = "gpiote" /\ irq.n = NumButtons) => latch \subseteq irq.seen

\* C29 (under Spec): a step that changes a subscription flag, or that ends
\* an enable or disable call, leaves the event queue as it was; the queue
\* stays the pushed events not yet popped, so events pushed before a
\* disable are still popped after it.
C29_DisableKeepsQueue ==
    /\ [](popped \o events = pushed)
    /\ [][(\/ read_enabled' # read_enabled
           \/ write_enabled' # write_enabled
           \/ (pc.at = "held" /\ pc.op \in {"enable", "disable"}
                 /\ pc' # pc))
          => (events' = events /\ pushed' = pushed /\ popped' = popped)]_vars

\* Read is disabled, the Read event pushed before the disable is still at
\* the head of the queue, and the consumer is about to pop it.
C29_Witness ==
    /\ ~read_enabled
    /\ pushed = << SerialEvent(Read) >>
    /\ events = pushed
    /\ pc = Held("pop", "none")

\* C26 (under SpecXtask): a call of copy_if_changed returns true iff
\* dst.hash is missing or is not the SHA-256 of src; then dst holds a copy
\* of src and dst.hash the SHA-256 of src; otherwise it returns false and
\* dst and dst.hash are as before.  So a call with the src of the previous
\* call returns false, and execute_wasm runs only after a call that
\* returned true.
C26_CopyIffHashDiffers ==
    [][/\ fs'.seq # fs.seq =>
            LET differs == fs.hash = Absent \/ fs.hash # Sha256(fs'.src)
            IN  /\ fs'.ret = IF differs THEN "true" ELSE "false"
                /\ differs => (fs'.dst = fs'.src
                                 /\ fs'.hash = Sha256(fs'.src))
                /\ ~differs => (fs'.dst = fs.dst /\ fs'.hash = fs.hash)
                /\ (fs.ret # "none" /\ fs'.src = fs.src)
                      => fs'.ret = "false"
       /\ (fs'.ran /\ ~fs.ran) =>
            (fs.ret = "true" /\ fs.dst = fs.src)
       /\ fs'.hash # fs.hash => fs'.seq # fs.seq]_vars

C26_Witness ==
    /\ fs.ret = "false" /\ fs.seq = 0 /\ fs.at = "idle"
    /\ fs.src = Wasm(2)
    /\ fs.dst = Optimized(Wasm(2))
    /\ fs.hash = Sha256(Wasm(2))
    /\ fs.before = [dst |-> fs.dst, hash |-> fs.hash]

\* C6 (under Spec): in every reachable state at most one mutable borrow of
\* the State exists, it is held only inside a critical section, no handler
\* runs while main-line holds it, and borrow_ref_mut never fails.
C6_ExclusiveBorrow ==
    /\ Cardinality(borrowed) <= 1
    /\ borrowed # {} => cs
    /\ irq.h # "none" => "main" \notin borrowed
    /\ panicked # "BorrowMutError"

C6_Witness ==
    /\ pc = Held("fill_bytes", "none") /\ borrowed = {"main"} /\ cs
    /\ latch # {} /\ irq.h = "none"
    /\ popped # << >>

\* C7 (under SpecBoot): nothing is published or unmasked before the State
\* is constructed, BOARD is Some before any interrupt is unmasked, and so
\* whenever a handler runs BOARD is Some and get_board's unwrap never fails.
C7_BoardBeforeUnmask ==
    /\ pc.at = "construct" => (BOARD = "None" /\ unmasked = 0)
    /\ unmasked > 0 => BOARD = "Some"
    /\ irq.h # "none" => BOARD = "Some"
    /\ panicked # "unwrap_none"

C7_Witness ==
    /\ pc.at = "unmask" /\ unmasked = 1
    /\ irq.h = "gpiote" /\ BOARD = "Some"

=============================================================================
